---- MODULE Spec2Model ----
(***************************************************************************)
(* Model of app.py: the FlightRadar24 pipeline for Aerolineas Argentinas   *)
(* at COR.  main() fetches arrivals and departures, process_flight_data    *)
(* filters and normalises them, combine_arrivals_departures pairs them by  *)
(* registration, and main() sorts the rows by their HH:MM string.          *)
(*                                                                         *)
(* Python strings whose characters matter (flight numbers, HH:MM times)    *)
(* are sequences of one-character strings; strings that are only compared  *)
(* for equality (registrations, IATA codes) are TLA+ strings.              *)
(***************************************************************************)
EXTENDS Integers, Sequences, FiniteSets

VARIABLES
    pc,                    \* position in main() / in the function under check
    start_timestamp,       \* int(start_time.timestamp())
    end_timestamp,         \* int(end_time.timestamp())
    srv,                   \* what the provider would answer: [arrivals, departures]
    fetch_outcome,         \* how each requests.get ended: [arrivals, departures]
    arrivals_raw,          \* main(): arrivals_raw
    departures_raw,        \* main(): departures_raw
    arrivals_processed,    \* main(): arrivals_processed  / combine(): arrivals
    departures_processed,  \* main(): departures_processed / combine(): departures
    combined_data,         \* combine(): combined_data
    row_src,               \* history: for each row, the list positions it was built from
    processed_matriculas,  \* combine(): processed_matriculas
    result,                \* what main() returns
    result_src             \* history: row_src permuted as the sort permutes the rows

vars == <<pc, start_timestamp, end_timestamp, srv, fetch_outcome, arrivals_raw,
          departures_raw, arrivals_processed, departures_processed, combined_data,
          row_src, processed_matriculas, result, result_src>>

-----------------------------------------------------------------------------
(* Bounds of the model *)

\* longest provider payload per direction in the run of main()
MaxSrv == 2
\* longest raw list handed to process_flight_data on its own
MaxRaw == 1
\* longest arrivals / departures list handed to combine_arrivals_departures
MaxFlights == 2

-----------------------------------------------------------------------------
(* Strings *)

\* JSON null / a missing time
None == -1

DigitChars == <<"0", "1", "2", "3", "4", "5", "6", "7", "8", "9">>

\* the code point of a character (only the characters the model uses)
Ord(c) ==
    CASE c = "0" -> 48 [] c = "1" -> 49 [] c = "2" -> 50 [] c = "3" -> 51
      [] c = "4" -> 52 [] c = "5" -> 53 [] c = "6" -> 54 [] c = "7" -> 55
      [] c = "8" -> 56 [] c = "9" -> 57 [] c = ":" -> 58
      [] c = "A" -> 65 [] c = "R" -> 82

\* Python's str <= str : lexicographic by code point, a proper prefix is smaller
RECURSIVE StrLeq(_, _)
StrLeq(a, b) ==
    IF a = <<>> THEN TRUE
    ELSE IF b = <<>> THEN FALSE
    ELSE IF Ord(Head(a)) < Ord(Head(b)) THEN TRUE
    ELSE IF Ord(Head(a)) > Ord(Head(b)) THEN FALSE
    ELSE StrLeq(Tail(a), Tail(b))

\* str.startswith('AR')
StartsWithAR(s) == Len(s) >= 2 /\ s[1] = "A" /\ s[2] = "R"

\* datetime.fromtimestamp(t, tz=UTC-3).strftime('%H:%M'), '' when t is falsy
ArtOffset == 10800
SecondsPerDay == 86400

TimeStr(t) ==
    IF t = 0 \/ t = None THEN <<>>
    ELSE LET local == (t - ArtOffset) % SecondsPerDay
             hh    == local \div 3600
             mm    == (local % 3600) \div 60
         IN  <<DigitChars[(hh \div 10) + 1], DigitChars[(hh % 10) + 1], ":",
               DigitChars[(mm \div 10) + 1], DigitChars[(mm % 10) + 1]>>

-----------------------------------------------------------------------------
(* get_flight_data_from_fr24 *)

\* the ways one requests.get can end
FetchOutcomes == {"ok", "http_error", "timeout", "malformed_body"}

\* a non-200 status, an exception of requests.get and a body that json() or the
\* .get chain rejects all return []; a 200 with a well-formed body returns its data
GetFlightDataFromFr24_IgnoreStatus(outcome, payload) ==
    IF outcome \in {"ok", "http_error"} THEN payload ELSE <<>>

GetFlightDataFromFr24(outcome, payload) ==
    IF outcome = "ok" THEN payload ELSE <<>>

-----------------------------------------------------------------------------
(* process_flight_data *)

\* flight_number_data.get('default', '') or flight_number_data.get('number', '')
RawFlightNumber(flight) ==
    IF flight.number_default # <<>> THEN flight.number_default ELSE flight.number_number

\* lines 72-73 and 105: strip one leading 'AR', then prefix 'AR'
NormalizeFlightNumber(raw) ==
    LET flight_number == IF StartsWithAR(raw) THEN SubSeq(raw, 3, Len(raw)) ELSE raw
    IN  <<"A", "R">> \o flight_number

\* the time key the direction selects
TimeKey(flight_type) == IF flight_type = "arrivals" THEN "arrival" ELSE "departure"

\* Python truthiness of a time: 0 and None are falsy
Truthy(t) == t # 0 /\ t # None

\* estimated_time if estimated_time else scheduled_time
FlightTime(flight, flight_type) ==
    LET scheduled_time == flight.scheduled[TimeKey(flight_type)]
        estimated_time == flight.estimated[TimeKey(flight_type)]
    IN  IF Truthy(estimated_time) THEN estimated_time ELSE scheduled_time

\* start_timestamp <= flight_time <= end_timestamp; comparing None with an int
\* raises TypeError, which the per-flight except turns into a skip
InWindow_Exclusive(flight_time, start, end) ==
    flight_time # None /\ start < flight_time /\ flight_time < end

InWindow(flight_time, start, end) ==
    flight_time # None /\ start <= flight_time /\ flight_time <= end

\* the flight_info dict of one kept flight
FlightInfo(flight, flight_type) ==
    LET flight_time == FlightTime(flight, flight_type)
    IN  [tipo         |-> IF flight_type = "arrivals" THEN "Llegada" ELSE "Salida",
         numero_vuelo |-> NormalizeFlightNumber(RawFlightNumber(flight)),
         hora         |-> TimeStr(flight_time),
         aeropuerto   |-> IF flight_type = "arrivals" THEN flight.origin
                                                      ELSE flight.destination,
         matricula    |-> flight.registration,
         timestamp    |-> flight_time]

\* whether the loop body reaches processed_data.append for this flight
Keeps(flight, flight_type, start, end) ==
    /\ flight.iata = "AR"
    /\ InWindow(FlightTime(flight, flight_type), start, end)

RECURSIVE ProcessFlightData(_, _, _, _)
ProcessFlightData(flights, flight_type, start, end) ==
    IF flights = <<>> THEN <<>>
    ELSE LET flight == Head(flights)
             rest   == ProcessFlightData(Tail(flights), flight_type, start, end)
         IN  IF Keeps(flight, flight_type, start, end)
             THEN <<FlightInfo(flight, flight_type)>> \o rest
             ELSE rest

-----------------------------------------------------------------------------
(* combine_arrivals_departures *)

AR1550 == <<"A", "R", "1", "5", "5", "0">>
AR1587 == <<"A", "R", "1", "5", "8", "7">>
AR1552 == <<"A", "R", "1", "5", "5", "2">>
AR1551 == <<"A", "R", "1", "5", "5", "1">>
AR1553 == <<"A", "R", "1", "5", "5", "3">>

exception_vuelos == {AR1550, AR1587, AR1552, AR1551, AR1553}

\* flight['numero_vuelo'] in exception_vuelos
IsException(numero_vuelo) == numero_vuelo \in exception_vuelos

ArrivalOnlyRow(flight) ==
    [llegada      |-> flight.numero_vuelo,
     salida       |-> <<>>,
     hora_llegada |-> flight.hora,
     hora_salida  |-> <<>>,
     origen       |-> flight.aeropuerto,
     destino      |-> "",
     matricula    |-> flight.matricula]

DepartureOnlyRow(flight) ==
    [llegada      |-> <<>>,
     salida       |-> flight.numero_vuelo,
     hora_llegada |-> <<>>,
     hora_salida  |-> flight.hora,
     origen       |-> "",
     destino      |-> flight.aeropuerto,
     matricula    |-> flight.matricula]

PairedRow(arrival, matching_departure) ==
    [llegada      |-> arrival.numero_vuelo,
     salida       |-> matching_departure.numero_vuelo,
     hora_llegada |-> arrival.hora,
     hora_salida  |-> matching_departure.hora,
     origen       |-> arrival.aeropuerto,
     destino      |-> matching_departure.aeropuerto,
     matricula    |-> arrival.matricula]

\* the row of an exception flight: by its 'tipo', arrival-only or departure-only
ExceptionRow_AlwaysArrival(flight) == ArrivalOnlyRow(flight)

ExceptionRow(flight) ==
    IF flight.tipo = "Llegada" THEN ArrivalOnlyRow(flight) ELSE DepartureOnlyRow(flight)

\* The state of the function between statements: the rows, the list positions
\* each row was built from (a: arrival index, d: departure index, 0: none), and
\* the consumed registrations.
EmptyCombine == [data |-> <<>>, src |-> <<>>, processed |-> {}]

Emit(st, row, a, d, matriculas) ==
    [data      |-> Append(st.data, row),
     src       |-> Append(st.src, [a |-> a, d |-> d]),
     processed |-> st.processed \cup matriculas]

\* for flight in arrivals + departures: ...   (lines 131-153)
RECURSIVE ExceptionLoop(_, _, _, _)
ExceptionLoop(arrivals, departures, i, st) ==
    IF i > Len(arrivals) + Len(departures) THEN st
    ELSE LET flight == (arrivals \o departures)[i]
             a      == IF i <= Len(arrivals) THEN i ELSE 0
             d      == IF i <= Len(arrivals) THEN 0 ELSE i - Len(arrivals)
         IN  IF IsException(flight.numero_vuelo)
             THEN ExceptionLoop(arrivals, departures, i + 1,
                                Emit(st, ExceptionRow(flight), a, d, {flight.matricula}))
             ELSE ExceptionLoop(arrivals, departures, i + 1, st)

\* the condition of the inner scan (lines 163-165)
DepartureMatches(departure, arrival, processed) ==
    /\ departure.matricula = arrival.matricula
    /\ departure.matricula \notin processed
    /\ ~IsException(departure.numero_vuelo)

\* a scan that keeps the last matching departure instead of breaking at the first
FindMatchingDeparture_Last(arrival, departures, processed, j) ==
    LET hits == {k \in j..Len(departures) :
                    DepartureMatches(departures[k], arrival, processed)}
    IN  IF hits = {} THEN 0 ELSE CHOOSE k \in hits : \A m \in hits : m <= k

\* for departure in departures: if ...: matching_departure = departure; break
\* the index of the departure found from position j on, 0 for None
RECURSIVE FindMatchingDeparture(_, _, _, _)
FindMatchingDeparture(arrival, departures, processed, j) ==
    IF j > Len(departures) THEN 0
    ELSE IF DepartureMatches(departures[j], arrival, processed) THEN j
    ELSE FindMatchingDeparture(arrival, departures, processed, j + 1)

\* the registrations a pairing consumes (lines 179-180)
PairConsumes_Nothing(arrival, matching_departure) == {}

PairConsumes(arrival, matching_departure) ==
    {arrival.matricula, matching_departure.matricula}

\* for arrival in arrivals: ...   (lines 156-192)
RECURSIVE MatchingLoop(_, _, _, _)
MatchingLoop(arrivals, departures, i, st) ==
    IF i > Len(arrivals) THEN st
    ELSE LET arrival == arrivals[i]
         IN  IF arrival.matricula \in st.processed \/ IsException(arrival.numero_vuelo)
             THEN MatchingLoop(arrivals, departures, i + 1, st)
             ELSE LET j == FindMatchingDeparture(arrival, departures, st.processed, 1)
                  IN  IF j # 0
                      THEN MatchingLoop(arrivals, departures, i + 1,
                               Emit(st, PairedRow(arrival, departures[j]), i, j,
                                    PairConsumes(arrival, departures[j])))
                      ELSE MatchingLoop(arrivals, departures, i + 1,
                               Emit(st, ArrivalOnlyRow(arrival), i, 0,
                                    {arrival.matricula}))

\* for departure in departures: ...   (lines 195-207)
RECURSIVE LeftoverLoop(_, _, _)
LeftoverLoop(departures, j, st) ==
    IF j > Len(departures) THEN st
    ELSE LET departure == departures[j]
         IN  IF departure.matricula \notin st.processed
                /\ ~IsException(departure.numero_vuelo)
             THEN LeftoverLoop(departures, j + 1,
                      Emit(st, DepartureOnlyRow(departure), 0, j, {departure.matricula}))
             ELSE LeftoverLoop(departures, j + 1, st)

-----------------------------------------------------------------------------
(* main: the sort of lines 301-306 *)

\* item['orden_temporal']
OrdenTemporal(item) ==
    IF item.hora_llegada # <<>> THEN item.hora_llegada ELSE item.hora_salida

\* list.sort(key=...) is ascending and stable: an item lands after every item
\* with a smaller key and after the earlier items with an equal key
SortRank(keys, i) ==
    1 + Cardinality({j \in DOMAIN keys :
                        \/ ~StrLeq(keys[i], keys[j])
                        \/ (keys[j] = keys[i] /\ j < i)})

\* the permutation the sort applies: position in the output -> index in the input
SortPerm(keys) ==
    [r \in DOMAIN keys |-> CHOOSE i \in DOMAIN keys : SortRank(keys, i) = r]

SortedRows(data) ==
    LET keys == [i \in 1..Len(data) |-> OrdenTemporal(data[i])]
        perm == SortPerm(keys)
    IN  [i \in 1..Len(data) |-> data[perm[i]]]

SortedSrc(data, src) ==
    LET keys == [i \in 1..Len(data) |-> OrdenTemporal(data[i])]
        perm == SortPerm(keys)
    IN  [i \in 1..Len(data) |-> src[perm[i]]]

-----------------------------------------------------------------------------
(* Inputs *)

\* all sequences over S of length at most n
SeqsUpTo(S, n) == UNION {[1..k -> S] : k \in 0..n}

\* datetime.now(art_tz) at 2026-11-03 22:00 ART and at 2026-11-03 00:00 ART
StartTimes == {1793754000, 1793674800}

\* get_time_range: end_time = start_time + timedelta(hours=24)
WindowSeconds == 86400

EndOf(start) == start + WindowSeconds

NoTimes == [arrival |-> 0, departure |-> 0]

RawFlight(iata, number, registration, sched, est, flight_type, airport) ==
    [iata           |-> iata,
     number_default |-> number,
     number_number  |-> <<>>,
     registration   |-> registration,
     scheduled      |-> [NoTimes EXCEPT ![TimeKey(flight_type)] = sched],
     estimated      |-> [NoTimes EXCEPT ![TimeKey(flight_type)] = est],
     origin         |-> IF flight_type = "arrivals" THEN airport ELSE "COR",
     destination    |-> IF flight_type = "arrivals" THEN "COR" ELSE airport]

\* Provider payloads of the run of main(): flights 90 and 150 minutes after the
\* start (either side of the next midnight when the run starts at 22:00), an
\* exception flight, another carrier's flight and a flight before the window.
SrvArrivals(start) ==
    { RawFlight("AR", <<"A","R","1","5","0","4">>, "LV-FNI", start + 4800, start + 5400,
                "arrivals", "AEP"),
      RawFlight("AR", <<"1","5","5","0">>, "LV-FNK", start + 9000, 0, "arrivals", "EZE"),
      RawFlight("LA", <<"4","3","0">>, "CC-BAW", start + 7200, 0, "arrivals", "SCL"),
      RawFlight("AR", <<"A","R","1","5","0","6">>, "LV-FNL", start - 60, 0,
                "arrivals", "AEP") }

SrvDepartures(start) ==
    { RawFlight("AR", <<"A","R","1","5","0","5">>, "LV-FNI", start + 9900, 0,
                "departures", "AEP"),
      RawFlight("AR", <<"A","R","1","5","5","1">>, "LV-FNK", start + 3600, 0,
                "departures", "EZE"),
      RawFlight("AR", <<"A","R","1","5","0","7">>, "LV-FNL", EndOf(start), None,
                "departures", "BRC") }

\* Raw flights handed to process_flight_data on its own: both carriers, the
\* number plain, prefixed, doubly prefixed or only under 'number', and each time
\* absent, null, or on or just outside a bound of the window.
RawNumbers ==
    { [default |-> <<"1","2","3","4">>, number |-> <<>>],
      [default |-> <<"A","R","1","2","3","4">>, number |-> <<>>],
      [default |-> <<"A","R","A","R","1","2","3","4">>, number |-> <<>>],
      [default |-> <<>>, number |-> <<"A","R","1","2","3","4">>] }

RawTimes(start) == {None, 0, start - 1, start, EndOf(start), EndOf(start) + 1}

\* the key of the other direction always holds a time inside the window
OtherTimes(start) == [arrival |-> start + 600, departure |-> start + 600]

RawFlights(start, flight_type) ==
    { [iata           |-> iata,
       number_default |-> n.default,
       number_number  |-> n.number,
       registration   |-> "LV-FNI",
       scheduled      |-> [OtherTimes(start) EXCEPT ![TimeKey(flight_type)] = sched],
       estimated      |-> [OtherTimes(start) EXCEPT ![TimeKey(flight_type)] = est],
       origin         |-> IF flight_type = "arrivals" THEN "AEP" ELSE "COR",
       destination    |-> IF flight_type = "arrivals" THEN "COR" ELSE "AEP"] :
      iata \in {"AR", "LA"}, n \in RawNumbers,
      sched \in RawTimes(start), est \in RawTimes(start) }

\* Processed flights handed to combine_arrivals_departures on its own: an
\* exception flight and two ordinary flights per direction, on two aircraft.
Matriculas == {"LV-FNI", "LV-FNK"}

Processed(tipo, numero_vuelo, hora, timestamp, aeropuerto, matricula) ==
    [tipo |-> tipo, numero_vuelo |-> numero_vuelo, hora |-> hora,
     aeropuerto |-> aeropuerto, matricula |-> matricula, timestamp |-> timestamp]

AR1504 == <<"A", "R", "1", "5", "0", "4">>
AR1506 == <<"A", "R", "1", "5", "0", "6">>
AR1505 == <<"A", "R", "1", "5", "0", "5">>
AR1507 == <<"A", "R", "1", "5", "0", "7">>

ProcessedArrivals ==
    UNION { { Processed("Llegada", AR1550, TimeStr(1793710800), 1793710800, "EZE", m),
              Processed("Llegada", AR1504, TimeStr(1793703600), 1793703600, "AEP", m),
              Processed("Llegada", AR1506, TimeStr(1793707200), 1793707200, "AEP", m) } :
            m \in Matriculas }

ProcessedDepartures ==
    UNION { { Processed("Salida", AR1551, TimeStr(1793718000), 1793718000, "EZE", m),
              Processed("Salida", AR1505, TimeStr(1793709000), 1793709000, "AEP", m),
              Processed("Salida", AR1507, TimeStr(1793703600), 1793703600, "BRC", m) } :
            m \in Matriculas }

-----------------------------------------------------------------------------
(* main() *)

Init ==
    /\ pc = "fetch_arrivals"
    /\ start_timestamp \in StartTimes
    /\ end_timestamp = EndOf(start_timestamp)
    /\ \E a \in SeqsUpTo(SrvArrivals(start_timestamp), MaxSrv),
          d \in SeqsUpTo(SrvDepartures(start_timestamp), MaxSrv) :
            srv = [arrivals |-> a, departures |-> d]
    /\ fetch_outcome = [arrivals |-> "pending", departures |-> "pending"]
    /\ arrivals_raw = <<>>
    /\ departures_raw = <<>>
    /\ arrivals_processed = <<>>
    /\ departures_processed = <<>>
    /\ combined_data = <<>>
    /\ row_src = <<>>
    /\ processed_matriculas = {}
    /\ result = <<>>
    /\ result_src = <<>>

\* arrivals_raw = get_flight_data_from_fr24(arrivals_url, 'arrivals')
FetchArrivals ==
    /\ pc = "fetch_arrivals"
    /\ \E outcome \in FetchOutcomes :
          /\ fetch_outcome' = [fetch_outcome EXCEPT !.arrivals = outcome]
          /\ arrivals_raw' = GetFlightDataFromFr24(outcome, srv.arrivals)
    /\ pc' = "process_arrivals"
    /\ UNCHANGED <<start_timestamp, end_timestamp, srv, departures_raw,
                   arrivals_processed, departures_processed, combined_data, row_src,
                   processed_matriculas, result, result_src>>

\* arrivals_processed = process_flight_data(arrivals_raw, 'arrivals', ...)
ProcessArrivals ==
    /\ pc = "process_arrivals"
    /\ arrivals_processed' =
          ProcessFlightData(arrivals_raw, "arrivals", start_timestamp, end_timestamp)
    /\ pc' = "fetch_departures"
    /\ UNCHANGED <<start_timestamp, end_timestamp, srv, fetch_outcome, arrivals_raw,
                   departures_raw, departures_processed, combined_data, row_src,
                   processed_matriculas, result, result_src>>

\* departures_raw = get_flight_data_from_fr24(departures_url, 'departures')
FetchDepartures ==
    /\ pc = "fetch_departures"
    /\ \E outcome \in FetchOutcomes :
          /\ fetch_outcome' = [fetch_outcome EXCEPT !.departures = outcome]
          /\ departures_raw' = GetFlightDataFromFr24(outcome, srv.departures)
    /\ pc' = "process_departures"
    /\ UNCHANGED <<start_timestamp, end_timestamp, srv, arrivals_raw,
                   arrivals_processed, departures_processed, combined_data, row_src,
                   processed_matriculas, result, result_src>>

\* departures_processed = process_flight_data(departures_raw, 'departures', ...)
ProcessDepartures ==
    /\ pc = "process_departures"
    /\ departures_processed' =
          ProcessFlightData(departures_raw, "departures", start_timestamp, end_timestamp)
    /\ pc' = "check_empty"
    /\ UNCHANGED <<start_timestamp, end_timestamp, srv, fetch_outcome, arrivals_raw,
                   departures_raw, arrivals_processed, combined_data, row_src,
                   processed_matriculas, result, result_src>>

\* if not arrivals_processed and not departures_processed: return []
ReturnEmpty ==
    /\ pc = "check_empty"
    /\ arrivals_processed = <<>> /\ departures_processed = <<>>
    /\ result' = <<>>
    /\ result_src' = <<>>
    /\ pc' = "done"
    /\ UNCHANGED <<start_timestamp, end_timestamp, srv, fetch_outcome, arrivals_raw,
                   departures_raw, arrivals_processed, departures_processed,
                   combined_data, row_src, processed_matriculas>>

\* otherwise main() calls combine_arrivals_departures
CallCombine ==
    /\ pc = "check_empty"
    /\ ~(arrivals_processed = <<>> /\ departures_processed = <<>>)
    /\ pc' = "exception_pass"
    /\ UNCHANGED <<start_timestamp, end_timestamp, srv, fetch_outcome, arrivals_raw,
                   departures_raw, arrivals_processed, departures_processed,
                   combined_data, row_src, processed_matriculas, result, result_src>>

CombineState ==
    [data |-> combined_data, src |-> row_src, processed |-> processed_matriculas]

SetCombineState(st) ==
    /\ combined_data' = st.data
    /\ row_src' = st.src
    /\ processed_matriculas' = st.processed

\* combine_arrivals_departures, lines 124-153
ExceptionPass ==
    /\ pc = "exception_pass"
    /\ SetCombineState(ExceptionLoop(arrivals_processed, departures_processed, 1,
                                     EmptyCombine))
    /\ pc' = "matching_pass"
    /\ UNCHANGED <<start_timestamp, end_timestamp, srv, fetch_outcome, arrivals_raw,
                   departures_raw, arrivals_processed, departures_processed,
                   result, result_src>>

\* combine_arrivals_departures, lines 155-192
MatchingPass ==
    /\ pc = "matching_pass"
    /\ SetCombineState(MatchingLoop(arrivals_processed, departures_processed, 1,
                                    CombineState))
    /\ pc' = "leftover_pass"
    /\ UNCHANGED <<start_timestamp, end_timestamp, srv, fetch_outcome, arrivals_raw,
                   departures_raw, arrivals_processed, departures_processed,
                   result, result_src>>

\* combine_arrivals_departures, lines 194-209
LeftoverPass ==
    /\ pc = "leftover_pass"
    /\ SetCombineState(LeftoverLoop(departures_processed, 1, CombineState))
    /\ pc' = "combined"
    /\ UNCHANGED <<start_timestamp, end_timestamp, srv, fetch_outcome, arrivals_raw,
                   departures_raw, arrivals_processed, departures_processed,
                   result, result_src>>

\* main(), lines 297-308: return [] for no rows, else sort by orden_temporal
SortAndReturn ==
    /\ pc = "combined"
    /\ result' = IF combined_data = <<>> THEN <<>> ELSE SortedRows(combined_data)
    /\ result_src' = IF combined_data = <<>> THEN <<>>
                     ELSE SortedSrc(combined_data, row_src)
    /\ pc' = "done"
    /\ UNCHANGED <<start_timestamp, end_timestamp, srv, fetch_outcome, arrivals_raw,
                   departures_raw, arrivals_processed, departures_processed,
                   combined_data, row_src, processed_matriculas>>

Next ==
    \/ FetchArrivals
    \/ ProcessArrivals
    \/ FetchDepartures
    \/ ProcessDepartures
    \/ ReturnEmpty
    \/ CallCombine
    \/ ExceptionPass
    \/ MatchingPass
    \/ LeftoverPass
    \/ SortAndReturn

Spec == Init /\ [][Next]_vars

-----------------------------------------------------------------------------
(* process_flight_data on its own *)

InitProcess ==
    /\ start_timestamp \in StartTimes
    /\ end_timestamp = EndOf(start_timestamp)
    /\ \E flight_type \in {"arrivals", "departures"} :
          \E flights \in SeqsUpTo(RawFlights(start_timestamp, flight_type), MaxRaw) :
             /\ pc = IF flight_type = "arrivals" THEN "process_arrivals"
                                                 ELSE "process_departures"
             /\ arrivals_raw = IF flight_type = "arrivals" THEN flights ELSE <<>>
             /\ departures_raw = IF flight_type = "arrivals" THEN <<>> ELSE flights
    /\ srv = [arrivals |-> <<>>, departures |-> <<>>]
    /\ fetch_outcome = [arrivals |-> "ok", departures |-> "ok"]
    /\ arrivals_processed = <<>>
    /\ departures_processed = <<>>
    /\ combined_data = <<>>
    /\ row_src = <<>>
    /\ processed_matriculas = {}
    /\ result = <<>>
    /\ result_src = <<>>

NextProcess == ProcessArrivals \/ ProcessDepartures

SpecProcess == InitProcess /\ [][NextProcess]_vars

-----------------------------------------------------------------------------
(* combine_arrivals_departures on its own *)

InitCombine ==
    /\ pc = "exception_pass"
    /\ start_timestamp = 1793674800
    /\ end_timestamp = EndOf(start_timestamp)
    /\ srv = [arrivals |-> <<>>, departures |-> <<>>]
    /\ fetch_outcome = [arrivals |-> "ok", departures |-> "ok"]
    /\ arrivals_raw = <<>>
    /\ departures_raw = <<>>
    /\ arrivals_processed \in SeqsUpTo(ProcessedArrivals, MaxFlights)
    /\ departures_processed \in SeqsUpTo(ProcessedDepartures, MaxFlights)
    /\ combined_data = <<>>
    /\ row_src = <<>>
    /\ processed_matriculas = {}
    /\ result = <<>>
    /\ result_src = <<>>

NextCombine == ExceptionPass \/ MatchingPass \/ LeftoverPass

SpecCombine == InitCombine /\ [][NextCombine]_vars

-----------------------------------------------------------------------------
(* Properties of combine_arrivals_departures, checked under SpecCombine *)

Rows == DOMAIN combined_data

IsPaired(row) == row.llegada # <<>> /\ row.salida # <<>>

\* the rows built from arrival i / from departure j
RowsOfArrival(i) == {k \in Rows : row_src[k].a = i}
RowsOfDeparture(j) == {k \in Rows : row_src[k].d = j}

InExceptionSet(numero_vuelo) ==
    numero_vuelo \in {AR1550, AR1587, AR1552, AR1551, AR1553}

\* C1: every input flight, identified by its position in its list, appears in
\* exactly one output row, alone or as one half of a paired row.
C1_TotalCoverage ==
    pc = "combined" =>
        /\ \A i \in DOMAIN arrivals_processed : Cardinality(RowsOfArrival(i)) = 1
        /\ \A j \in DOMAIN departures_processed : Cardinality(RowsOfDeparture(j)) = 1

\* C2: every flight whose number is in the exception set appears as a standalone
\* row of its own kind (arrival-only for an arrival, departure-only for a
\* departure), and no paired row has an exception flight number on either side,
\* even when the exception flight shares its registration with other flights.
C2_ExceptionIsolation ==
    pc = "combined" =>
        /\ \A i \in DOMAIN arrivals_processed :
              InExceptionSet(arrivals_processed[i].numero_vuelo) =>
                  /\ Cardinality(RowsOfArrival(i)) = 1
                  /\ \A k \in RowsOfArrival(i) :
                        /\ row_src[k].d = 0
                        /\ combined_data[k].llegada = arrivals_processed[i].numero_vuelo
                        /\ combined_data[k].salida = <<>>
                        /\ combined_data[k].hora_salida = <<>>
                        /\ combined_data[k].destino = ""
        /\ \A j \in DOMAIN departures_processed :
              InExceptionSet(departures_processed[j].numero_vuelo) =>
                  /\ Cardinality(RowsOfDeparture(j)) = 1
                  /\ \A k \in RowsOfDeparture(j) :
                        /\ row_src[k].a = 0
                        /\ combined_data[k].salida = departures_processed[j].numero_vuelo
                        /\ combined_data[k].llegada = <<>>
                        /\ combined_data[k].hora_llegada = <<>>
                        /\ combined_data[k].origen = ""
        /\ \A k \in Rows :
              IsPaired(combined_data[k]) =>
                  /\ ~InExceptionSet(combined_data[k].llegada)
                  /\ ~InExceptionSet(combined_data[k].salida)

\* an exception arrival and an exception departure, each sharing its registration
\* with an ordinary flight of the other direction, have been combined
C2_Witness ==
    /\ pc = "combined"
    /\ \E i \in DOMAIN arrivals_processed, j \in DOMAIN departures_processed :
          /\ InExceptionSet(arrivals_processed[i].numero_vuelo)
          /\ ~InExceptionSet(departures_processed[j].numero_vuelo)
          /\ arrivals_processed[i].matricula = departures_processed[j].matricula
    /\ \E i \in DOMAIN arrivals_processed, j \in DOMAIN departures_processed :
          /\ ~InExceptionSet(arrivals_processed[i].numero_vuelo)
          /\ InExceptionSet(departures_processed[j].numero_vuelo)
          /\ arrivals_processed[i].matricula = departures_processed[j].matricula

\* C3: whenever an exception arrival and a non-exception departure share a
\* registration, the output has an arrival-only row for the exception flight
\* and a departure-only row for the other flight, and no row pairing the two.
C3_ExceptionScenario ==
    pc = "combined" =>
        \A i \in DOMAIN arrivals_processed, j \in DOMAIN departures_processed :
            ( /\ InExceptionSet(arrivals_processed[i].numero_vuelo)
              /\ ~InExceptionSet(departures_processed[j].numero_vuelo)
              /\ arrivals_processed[i].matricula = departures_processed[j].matricula )
            => /\ \E k \in Rows : row_src[k] = [a |-> i, d |-> 0]
               /\ \E k \in Rows : row_src[k] = [a |-> 0, d |-> j]
               /\ ~\E k \in Rows : row_src[k] = [a |-> i, d |-> j]

\* the registrations no exception flight carries and both lists hold
SharedOrdinaryMatriculas ==
    {m \in Matriculas :
        /\ \A i \in DOMAIN arrivals_processed :
              arrivals_processed[i].matricula = m
                  => ~InExceptionSet(arrivals_processed[i].numero_vuelo)
        /\ \A j \in DOMAIN departures_processed :
              departures_processed[j].matricula = m
                  => ~InExceptionSet(departures_processed[j].numero_vuelo)
        /\ \E i \in DOMAIN arrivals_processed : arrivals_processed[i].matricula = m
        /\ \E j \in DOMAIN departures_processed : departures_processed[j].matricula = m}

\* C4: for every registration that no exception flight carries and that is in
\* both lists, at most one output row has that registration, and it is a paired
\* row whose arrival and departure both have that registration.
C4_RegistrationExclusivity ==
    pc = "combined" =>
        \A m \in SharedOrdinaryMatriculas :
            /\ Cardinality({k \in Rows : combined_data[k].matricula = m}) <= 1
            /\ \E k \in Rows :
                  /\ combined_data[k].matricula = m
                  /\ IsPaired(combined_data[k])
                  /\ row_src[k].a # 0 /\ row_src[k].d # 0
                  /\ arrivals_processed[row_src[k].a].matricula = m
                  /\ departures_processed[row_src[k].d].matricula = m
                  /\ combined_data[k].llegada = arrivals_processed[row_src[k].a].numero_vuelo
                  /\ combined_data[k].salida = departures_processed[row_src[k].d].numero_vuelo

\* a registration with two ordinary arrivals and two ordinary departures
C4_Witness ==
    /\ pc = "combined"
    /\ \E m \in SharedOrdinaryMatriculas :
          /\ Cardinality({i \in DOMAIN arrivals_processed :
                             arrivals_processed[i].matricula = m}) = 2
          /\ Cardinality({j \in DOMAIN departures_processed :
                             departures_processed[j].matricula = m}) = 2

\* C9: the departure of a paired row is the first departure, in list order, with
\* the arrival's registration and a non-exception flight number (its
\* registration, being the arrival's, is not yet consumed when the arrival is
\* matched), whatever the departures' times.
C9_FirstFound ==
    pc = "combined" =>
        \A k \in Rows :
            (row_src[k].a # 0 /\ row_src[k].d # 0) =>
                LET arrival == arrivals_processed[row_src[k].a]
                    j       == row_src[k].d
                IN  /\ departures_processed[j].matricula = arrival.matricula
                    /\ ~InExceptionSet(departures_processed[j].numero_vuelo)
                    /\ combined_data[k].salida = departures_processed[j].numero_vuelo
                    /\ \A e \in 1..(j - 1) :
                          ~( /\ departures_processed[e].matricula = arrival.matricula
                             /\ ~InExceptionSet(departures_processed[e].numero_vuelo) )

\* a pairing with the first of two candidate departures although the second
\* one leaves earlier
C9_Witness ==
    /\ pc = "combined"
    /\ Len(departures_processed) >= 2
    /\ \E k \in Rows :
          /\ row_src[k].a # 0 /\ row_src[k].d = 1
          /\ departures_processed[2].matricula = departures_processed[1].matricula
          /\ ~InExceptionSet(departures_processed[2].numero_vuelo)
          /\ departures_processed[2].timestamp < departures_processed[1].timestamp

\* C10: every departure whose flight number is not exceptional and whose
\* registration neither the exception pass nor the matching pass consumed gets
\* a departure-only row of its own in the leftover pass.
C10_LeftoverDepartures ==
    [][ pc = "leftover_pass" =>
          \A j \in DOMAIN departures_processed :
              ( /\ ~InExceptionSet(departures_processed[j].numero_vuelo)
                /\ departures_processed[j].matricula \notin processed_matriculas )
              => \E k \in DOMAIN combined_data' :
                    /\ row_src'[k] = [a |-> 0, d |-> j]
                    /\ combined_data'[k].llegada = <<>>
                    /\ combined_data'[k].hora_llegada = <<>>
                    /\ combined_data'[k].origen = ""
                    /\ combined_data'[k].salida = departures_processed[j].numero_vuelo
      ]_vars

-----------------------------------------------------------------------------
(* Properties of process_flight_data, checked under SpecProcess *)

\* the list process_flight_data was given and the list it returned, once it has run
ProcessRan == pc \in {"fetch_departures", "check_empty"}
ProcessType == IF pc = "fetch_departures" THEN "arrivals" ELSE "departures"
ProcessInput == IF pc = "fetch_departures" THEN arrivals_raw ELSE departures_raw
ProcessOutput == IF pc = "fetch_departures" THEN arrivals_processed
                                            ELSE departures_processed

IsDigit(c) == c \in {"0", "1", "2", "3", "4", "5", "6", "7", "8", "9"}

\* 'AR' followed by digits only
IsCanonical(s) ==
    /\ Len(s) > 2
    /\ s[1] = "A" /\ s[2] = "R"
    /\ \A n \in 3..Len(s) : IsDigit(s[n])

\* C6: the flight number of every processed flight is 'AR' followed by the
\* digits, the prefix never duplicated ('1234', 'AR1234' and 'ARAR1234' all give
\* 'AR1234'), and normalising it again returns it unchanged.
C6_CanonicalFlightNumber ==
    ProcessRan =>
        \A n \in DOMAIN ProcessOutput :
            /\ IsCanonical(ProcessOutput[n].numero_vuelo)
            /\ ProcessOutput[n].numero_vuelo = <<"A", "R", "1", "2", "3", "4">>
            /\ NormalizeFlightNumber(ProcessOutput[n].numero_vuelo)
                   = ProcessOutput[n].numero_vuelo

\* the time the window test applies to: the estimated time of the direction
\* when it is neither 0 nor null, else the scheduled one
EffectiveTime(flight, flight_type) ==
    LET key == IF flight_type = "arrivals" THEN "arrival" ELSE "departure"
    IN  IF flight.estimated[key] \notin {0, None} THEN flight.estimated[key]
        ELSE flight.scheduled[key]

ShouldKeep(flight) ==
    /\ flight.iata = "AR"
    /\ EffectiveTime(flight, ProcessType) \notin {0, None}
    /\ start_timestamp <= EffectiveTime(flight, ProcessType)
    /\ EffectiveTime(flight, ProcessType) <= end_timestamp

\* C7: a tracked-carrier flight is kept if and only if start <= effective time
\* <= end (bounds included; start - 1, end + 1 and a flight with no time are
\* dropped), so the output is the sub-list of those flights, in order, each
\* with its effective time.
C7_WindowInclusive ==
    ProcessRan =>
        LET expected == SelectSeq(ProcessInput, ShouldKeep)
        IN  /\ Len(ProcessOutput) = Len(expected)
            /\ \A n \in DOMAIN expected :
                  /\ ProcessOutput[n].timestamp = EffectiveTime(expected[n], ProcessType)
                  /\ ProcessOutput[n].numero_vuelo
                        = NormalizeFlightNumber(RawFlightNumber(expected[n]))

\* a flight whose estimated time is absent and whose scheduled time is exactly
\* the end of the window was kept, and so was one estimated exactly at the start
C7_Witness ==
    /\ ProcessRan
    /\ Len(ProcessInput) = 1
    /\ Len(ProcessOutput) = 1
    /\ \/ /\ ProcessInput[1].estimated[TimeKey(ProcessType)] = 0
          /\ ProcessInput[1].scheduled[TimeKey(ProcessType)] = end_timestamp
       \/ /\ ProcessInput[1].estimated[TimeKey(ProcessType)] = start_timestamp
          /\ ProcessInput[1].scheduled[TimeKey(ProcessType)] = end_timestamp + 1

-----------------------------------------------------------------------------
(* Properties of main(), checked under Spec *)

\* the effective timestamp of an output row: its arrival's, else its departure's
RowTimestamp(src) ==
    IF src.a # 0 THEN arrivals_processed[src.a].timestamp
    ELSE departures_processed[src.d].timestamp

\* C5: the list main returns is ordered by effective time: of any two rows, the
\* one placed earlier has an effective timestamp <= that of the one placed later.
C5_SortedByEffectiveTime ==
    pc = "done" =>
        \A m \in DOMAIN result, n \in DOMAIN result :
            m < n => RowTimestamp(result_src[m]) <= RowTimestamp(result_src[n])

IsDepartureOnly(row) ==
    /\ row.llegada = <<>> /\ row.hora_llegada = <<>> /\ row.origen = ""
    /\ row.salida # <<>>

IsArrivalOnly(row) ==
    /\ row.salida = <<>> /\ row.hora_salida = <<>> /\ row.destino = ""
    /\ row.llegada # <<>>

\* C8: a failed fetch (non-200, timeout or exception, malformed body) yields an
\* empty list for its direction; main still runs to its return, and what it
\* returns holds only standalone rows of the other direction's flights (one
\* departure-only row for a single departure); with both directions empty it
\* returns the empty list.
C8_FetchFailureNotFatal ==
    /\ pc # "done" => ENABLED Next
    /\ (pc \notin {"fetch_arrivals", "process_arrivals"}
           /\ fetch_outcome.arrivals # "ok") => arrivals_processed = <<>>
    /\ (pc \notin {"fetch_arrivals", "process_arrivals", "fetch_departures",
                   "process_departures"}
           /\ fetch_outcome.departures # "ok") => departures_processed = <<>>
    /\ pc = "done" =>
          /\ fetch_outcome.arrivals # "ok" =>
                /\ arrivals_raw = <<>>
                /\ \A n \in DOMAIN result :
                      /\ IsDepartureOnly(result[n])
                      /\ \E j \in DOMAIN departures_processed :
                            /\ result[n].salida = departures_processed[j].numero_vuelo
                            /\ result[n].hora_salida = departures_processed[j].hora
                            /\ result[n].destino = departures_processed[j].aeropuerto
                            /\ result[n].matricula = departures_processed[j].matricula
                /\ Len(departures_processed) = 1 => Len(result) = 1
                /\ departures_processed # <<>> => result # <<>>
          /\ fetch_outcome.departures # "ok" =>
                /\ departures_raw = <<>>
                /\ \A n \in DOMAIN result :
                      /\ IsArrivalOnly(result[n])
                      /\ \E i \in DOMAIN arrivals_processed :
                            /\ result[n].llegada = arrivals_processed[i].numero_vuelo
                            /\ result[n].hora_llegada = arrivals_processed[i].hora
                            /\ result[n].origen = arrivals_processed[i].aeropuerto
                            /\ result[n].matricula = arrivals_processed[i].matricula
                /\ Len(arrivals_processed) = 1 => Len(result) = 1
                /\ arrivals_processed # <<>> => result # <<>>
          /\ (arrivals_processed = <<>> /\ departures_processed = <<>>) => result = <<>>

\* the arrivals fetch timed out although the provider had arrivals, and main
\* returned the one departure-only row of the only departure in the window
C8_Witness ==
    /\ pc = "done"
    /\ fetch_outcome.arrivals = "timeout"
    /\ fetch_outcome.departures = "ok"
    /\ srv.arrivals # <<>>
    /\ Len(departures_processed) = 1
    /\ Len(result) = 1
    /\ IsDepartureOnly(result[1])

====
